---- MODULE Spec2Model ----
(***************************************************************************)
(* Speaker-diarization core of services/audio-diarization:                 *)
(*   utils/audio_utils.py  convert_to_wav                                  *)
(*   src/diarization.py    extract_features, detect_voice_activity,        *)
(*                         cluster_speakers, process_diarization           *)
(*                                                                         *)
(* Time.  Every timestamp of the program is frame_index * hop / sr         *)
(* seconds.  The model keeps a timestamp as the integer number of samples  *)
(* at the rate SR (seconds * SR), so 0.5 s is SR / 2 and 1.0 s is SR; a    *)
(* comparison  t >= 0.5  is written  2 * t >= SR.                          *)
(***************************************************************************)
EXTENDS Integers, Sequences, FiniteSets, TLC

\* ------------------------------------------------------------------------
\* Program constants
\* ------------------------------------------------------------------------
\* librosa.load(audio_path, sr=16000, mono=True)
SR == 16000
\* hop_length = 512 (also the librosa default used by rms, mfcc, times_like)
hop_length == 512
\* librosa.feature.mfcc(y=y, sr=sr, n_mfcc=20); the delta has as many rows
n_mfcc == 20
\* librosa.feature.spectral_contrast(y=y, sr=sr): n_bands + 1 = 7 rows
n_contrast == 7

\* ------------------------------------------------------------------------
\* Bounds of the model
\* ------------------------------------------------------------------------
\* a signal's per-frame activity is built from at most MaxRuns runs
MaxRuns == 3

\* cluster_speakers alone is given at most MaxFrames feature frames
MaxFrames == 4

\* min_speakers and max_speakers are drawn from 0..MaxSpeakersArg
MaxSpeakersArg == 3

\* the merge pass alone is given at most MaxSegments segments
MaxSegments == 3

\* run lengths, in frames: one frame, and the lengths around the 0.5 s floor
\* (a run of 17 frames spans 16 hops = 0.512 s, one of 16 frames 0.48 s)
RunLens == {1, 13, 16, 17}

\* ------------------------------------------------------------------------
\* Sequence helpers
\* ------------------------------------------------------------------------
Last(s) == s[Len(s)]

Range(s) == {s[i] : i \in 1..Len(s)}

RECURSIVE Repeat(_, _)
Repeat(x, n) == IF n = 0 THEN <<>> ELSE <<x>> \o Repeat(x, n - 1)

\* the activity pattern with runs of the given lengths, alternating, the
\* first one active iff `first`
RECURSIVE Expand(_, _)
Expand(first, lens) ==
    IF lens = <<>> THEN <<>>
    ELSE Repeat(first, Head(lens)) \o Expand(~first, Tail(lens))

RunSeqs == UNION {[1..n -> RunLens] : n \in 0..MaxRuns}

\* energy_db > threshold_db, per RMS frame, of the signals the model draws
ActivityPatterns == {Expand(f, lens) : f \in BOOLEAN, lens \in RunSeqs}

\* ------------------------------------------------------------------------
\* detect_voice_activity
\* ------------------------------------------------------------------------
\* librosa.frames_to_time(frame, sr=sr, hop_length=hop_length), in samples
frames_to_time(frame) == frame * hop_length

\* np.where(energy_db > threshold_db)[0]: the 0-based indices of the active
\* frames, ascending
RECURSIVE WhereActive(_, _)
WhereActive(active, i) ==
    IF i > Len(active) THEN <<>>
    ELSE (IF active[i] THEN <<i - 1>> ELSE <<>>) \o WhereActive(active, i + 1)

\* mutant of SegmentBoundaries: the run that is open when the loop ends is
\* not appended
RECURSIVE SegmentBoundariesNoLast(_, _, _)
SegmentBoundariesNoLast(speech_frames, i, start_idx) ==
    IF i > Len(speech_frames)
    THEN <<>>
    ELSE IF speech_frames[i] - speech_frames[i - 1] > 1
         THEN <<<<start_idx, speech_frames[i - 1]>>>>
              \o SegmentBoundariesNoLast(speech_frames, i + 1, speech_frames[i])
         ELSE SegmentBoundariesNoLast(speech_frames, i + 1, start_idx)

\* the loop  for i in range(1, len(speech_frames))  and the append after it;
\* i is the 1-based position of speech_frames[i] of the code
RECURSIVE SegmentBoundaries(_, _, _)
SegmentBoundaries(speech_frames, i, start_idx) ==
    IF i > Len(speech_frames)
    THEN <<<<start_idx, Last(speech_frames)>>>>
    ELSE IF speech_frames[i] - speech_frames[i - 1] > 1
         THEN <<<<start_idx, speech_frames[i - 1]>>>>
              \o SegmentBoundaries(speech_frames, i + 1, speech_frames[i])
         ELSE SegmentBoundaries(speech_frames, i + 1, start_idx)

\* mutant of MinDuration: the floor is not applied
MinDurationNoFloor(start_time, end_time) == TRUE

\* if end_time - start_time >= 0.5
MinDuration(start_time, end_time) == 2 * (end_time - start_time) >= SR

RECURSIVE ToVadSegments(_)
ToVadSegments(bounds) ==
    IF bounds = <<>> THEN <<>>
    ELSE LET start_time == frames_to_time(Head(bounds)[1])
             end_time   == frames_to_time(Head(bounds)[2])
         IN  (IF MinDuration(start_time, end_time)
              THEN <<<<start_time, end_time>>>> ELSE <<>>)
             \o ToVadSegments(Tail(bounds))

detect_voice_activity(active) ==
    LET speech_frames == WhereActive(active, 1)
    IN  IF Len(speech_frames) = 0 THEN <<>>
        ELSE ToVadSegments(SegmentBoundaries(speech_frames, 2, speech_frames[1]))

\* ------------------------------------------------------------------------
\* cluster_speakers: restriction to the speech frames
\* ------------------------------------------------------------------------
\* (frames >= start_time) & (frames <= end_time), over the intervals
InSpeech(t, vad_segments) ==
    \E j \in 1..Len(vad_segments) :
        t >= vad_segments[j][1] /\ t <= vad_segments[j][2]

\* speech_mask, as the ascending list of the 1-based positions it selects
RECURSIVE SpeechIdx(_, _, _)
SpeechIdx(frames, vad_segments, i) ==
    IF i > Len(frames) THEN <<>>
    ELSE (IF InSpeech(frames[i], vad_segments) THEN <<i>> ELSE <<>>)
         \o SpeechIdx(frames, vad_segments, i + 1)

\* x[speech_mask]
Masked(x, idx) == [p \in 1..Len(idx) |-> x[idx[p]]] @@ <<>>

\* ------------------------------------------------------------------------
\* The library calls of cluster_speakers.
\*
\* A feature row is kept as its row number.  What the rows' values decide is
\* the dendrogram Ward linkage builds over them and the silhouette of each
\* cut; both are functions of the features alone, so they are part of the
\* input next to the features: `linkage` is the merge order, a sequence of
\* pairs <<a, b>> of rows whose clusters are joined, and `silhouette` gives
\* the score of the cut into k clusters.
\* ------------------------------------------------------------------------
\* joining the clusters of rows a and b in the partition cl (row -> smallest
\* row of its cluster)
Join(cl, a, b) ==
    LET lo == IF cl[a] < cl[b] THEN cl[a] ELSE cl[b]
    IN  \* (@@ makes TLC build the new partition once, here)
        [r \in DOMAIN cl |-> IF cl[r] = cl[a] \/ cl[r] = cl[b] THEN lo ELSE cl[r]]
        @@ <<>>

\* the clusters of the partition cl that hold a sample
ClustersOf(cl, samples) == {cl[samples[p]] : p \in 1..Len(samples)}

\* the tree cut: merges are applied in order until the samples lie in k clusters
RECURSIVE Cut(_, _, _, _, _)
Cut(cl, linkage, m, samples, k) ==
    IF Cardinality(ClustersOf(cl, samples)) <= k \/ m > Len(linkage) THEN cl
    ELSE Cut(Join(cl, linkage[m][1], linkage[m][2]), linkage, m + 1, samples, k)

\* cluster labels 0..k-1, numbered in the order the clusters first appear
RECURSIVE LabelsFrom(_, _, _, _)
LabelsFrom(cl, samples, p, seen) ==
    IF p > Len(samples) THEN <<>>
    ELSE LET c == cl[samples[p]]
         IN  IF \E j \in 1..Len(seen) : seen[j] = c
             THEN <<(CHOOSE j \in 1..Len(seen) : seen[j] = c) - 1>>
                  \o LabelsFrom(cl, samples, p + 1, seen)
             ELSE <<Len(seen)>> \o LabelsFrom(cl, samples, p + 1, Append(seen, c))

LabelsOf(cl, samples) == LabelsFrom(cl, samples, 1, <<>>)

\* AgglomerativeClustering(n_clusters=k, linkage='ward') is defined for
\* at least two samples and 1 <= k <= number of samples; it raises otherwise
FitDefined(samples, k) == Len(samples) >= 2 /\ k >= 1 /\ k <= Len(samples)

\* clustering.fit_predict(scaled_features): exactly k distinct labels
fit_predict(samples, k, linkage) ==
    LET N == Len(linkage) + 1
    IN  LabelsOf(Cut([r \in 1..N |-> r], linkage, 1, samples, k), samples)

\* len(np.unique(cluster_labels))
NumUnique(labels) == Cardinality(Range(labels))

\* silhouette_score(scaled_features, cluster_labels) raises unless the number
\* of labels is in 2..n_samples-1
SilhouetteDefined(samples, labels) ==
    NumUnique(labels) >= 2 /\ NumUnique(labels) <= Len(samples) - 1

\* ------------------------------------------------------------------------
\* cluster_speakers: the search for the number of clusters
\* ------------------------------------------------------------------------
Min2(a, b) == IF a < b THEN a ELSE b

Max2(a, b) == IF a > b THEN a ELSE b

\* mutant of TrialStop: the number of samples does not cap the range
TrialStopUncapped(max_speakers, n) == max_speakers + 1

\* the exclusive upper end of range(min_speakers, min(max_speakers + 1, n))
TrialStop(max_speakers, n) == Min2(max_speakers + 1, n)

\* mutant of Better: the comparison is turned around
BetterReversed(score, best_score) == score < best_score

\* mutant of Better: a tie replaces the best so far
BetterOrEqual(score, best_score) == score >= best_score

\* if score > best_score
Better(score, best_score) == score > best_score

\* mutant of SkipTrial: k = 1 is tried like any other
SkipTrialNever(n_clusters) == FALSE

\* if n_clusters <= 1: continue
SkipTrial(n_clusters) == n_clusters <= 1

\* best_score = -1
InitialBestScore == -1

\* silhouette scores lie in (-1, 1] (a mean of -1 would need every sample at
\* distance 0 from another cluster and at a positive distance from its own);
\* the model draws the two values 0 and 1
Scores == {0, 1}

\* the loop over n_clusters; st carries best_score, best_n_clusters,
\* silhouette_scores, cluster_labels, and the list of the k that were fitted
RECURSIVE SearchLoop(_, _, _, _, _, _)
SearchLoop(n_clusters, stop, samples, linkage, silhouette, st) ==
    IF n_clusters >= stop THEN st
    ELSE IF SkipTrial(n_clusters)
    THEN SearchLoop(n_clusters + 1, stop, samples, linkage, silhouette, st)
    ELSE IF ~FitDefined(samples, n_clusters)
    THEN [st EXCEPT !.raised = TRUE, !.fits = Append(@, n_clusters)]
    ELSE
      LET labels == fit_predict(samples, n_clusters, linkage)
          fitted == [st EXCEPT !.cluster_labels = labels,
                               !.fits = Append(@, n_clusters)]
      IN  IF NumUnique(labels) <= 1
          THEN SearchLoop(n_clusters + 1, stop, samples, linkage, silhouette, fitted)
          ELSE
            \* try: ... except Exception: only a warning is logged
            IF ~SilhouetteDefined(samples, labels)
            THEN SearchLoop(n_clusters + 1, stop, samples, linkage, silhouette, fitted)
            ELSE
            LET score  == silhouette[n_clusters]
                scored == [fitted EXCEPT
                             !.silhouette_scores = Append(@, <<n_clusters, score>>)]
                kept   == IF Better(score, st.best_score)
                          THEN [scored EXCEPT !.best_score = score,
                                              !.best_n_clusters = n_clusters]
                          ELSE scored
            IN  SearchLoop(n_clusters + 1, stop, samples, linkage, silhouette, kept)

\* ------------------------------------------------------------------------
\* cluster_speakers: segment assembly
\* ------------------------------------------------------------------------
\* mutant of NewSegment: a gap above 0.125 s starts a segment
NewSegmentOnShortGap(label, current_speaker, t, t_prev) ==
    label # current_speaker \/ 8 * (t - t_prev) > SR

\* mutant of NewSegment: a change of speaker alone starts a segment
NewSegmentOnSpeakerOnly(label, current_speaker, t, t_prev) ==
    label # current_speaker

\* mutant of NewSegment: a gap alone starts a segment
NewSegmentOnGapOnly(label, current_speaker, t, t_prev) == (t - t_prev) > SR

\* if cluster_labels[i] != current_speaker or
\*    (speech_frames[i] - speech_frames[i-1]) > 1.0
NewSegment(label, current_speaker, t, t_prev) ==
    label # current_speaker \/ (t - t_prev) > SR

\* mutant of SegmentEnd: a segment is closed at the frame that opens the next
SegmentEndAtNextStart(speech_frames, i) == speech_frames[i]

\* mutant of SegmentEnd: every segment is closed at the last frame
SegmentEndAtLastFrame(speech_frames, i) == Last(speech_frames)

\* segment_end = speech_frames[i-1]
SegmentEnd(speech_frames, i) == speech_frames[i - 1]

\* the loop  for i in range(1, len(speech_frames))  and the append after it;
\* i is the 1-based position of speech_frames[i] of the code
RECURSIVE FirstPass(_, _, _, _, _)
FirstPass(cluster_labels, speech_frames, i, current_speaker, segment_start) ==
    IF i > Len(speech_frames)
    THEN <<[speaker |-> current_speaker, start |-> segment_start,
            end |-> Last(speech_frames)]>>
    ELSE IF NewSegment(cluster_labels[i], current_speaker,
                       speech_frames[i], speech_frames[i - 1])
         THEN <<[speaker |-> current_speaker, start |-> segment_start,
                 end |-> SegmentEnd(speech_frames, i)]>>
              \o FirstPass(cluster_labels, speech_frames, i + 1,
                           cluster_labels[i], speech_frames[i])
         ELSE FirstPass(cluster_labels, speech_frames, i + 1,
                        current_speaker, segment_start)

\* mutant of CanMerge: the speakers are not compared
CanMergeAnySpeaker(current, next_segment) ==
    2 * (next_segment.start - current.end) < SR

\* mutant of CanMerge: the gap is measured between the two ends
CanMergeByEnds(current, next_segment) ==
    /\ next_segment.speaker = current.speaker
    /\ 2 * (next_segment.end - current.end) < SR

\* if next_segment['speaker'] == current['speaker'] and
\*    (next_segment['start'] - current['end']) < 0.5
CanMerge(current, next_segment) ==
    /\ next_segment.speaker = current.speaker
    /\ 2 * (next_segment.start - current.end) < SR

\* the loop  for next_segment in speaker_segments[1:]  and the append after
\* it; i is the 1-based position of next_segment
RECURSIVE MergeLoop(_, _, _)
MergeLoop(speaker_segments, i, current) ==
    IF i > Len(speaker_segments) THEN <<current>>
    ELSE IF CanMerge(current, speaker_segments[i])
         THEN MergeLoop(speaker_segments, i + 1,
                        [current EXCEPT !.end = speaker_segments[i].end])
         ELSE <<current>> \o MergeLoop(speaker_segments, i + 1, speaker_segments[i])

\* the merge pass, lines 247-263
MergePass(speaker_segments) ==
    IF speaker_segments = <<>> THEN <<>>
    ELSE MergeLoop(speaker_segments, 2, speaker_segments[1])

\* ------------------------------------------------------------------------
\* cluster_speakers
\* ------------------------------------------------------------------------
\* what a call leaves behind: `raised` or the returned merged_segments, and
\* the locals of the call at its end
NoClustering ==
    [raised |-> FALSE, clustered |-> FALSE, merged_segments |-> <<>>,
     speaker_segments |-> <<>>, speech_frames |-> <<>>, cluster_labels |-> <<>>,
     best_score |-> InitialBestScore, best_n_clusters |-> 0,
     silhouette_scores |-> <<>>, fits |-> <<>>]

\* mutant of cluster_speakers: no clustering is fitted after the loop; the
\* segments are assembled from the labels the last trial left behind
cluster_speakers_last_trial(features, frames, vad_segments, min_speakers, max_speakers, linkage, silhouette) ==
    IF vad_segments = <<>> THEN NoClustering
    ELSE IF Len(features) # Len(frames)
    THEN [NoClustering EXCEPT !.raised = TRUE]
    ELSE
      LET idx             == SpeechIdx(frames, vad_segments, 1)
          speech_features == Masked(features, idx)
          speech_frames   == Masked(frames, idx)
      IN
      IF Len(speech_features) = 0 THEN NoClustering
      ELSE
        LET st0 == [NoClustering EXCEPT !.speech_frames = speech_frames,
                                        !.best_n_clusters = min_speakers]
            st  == SearchLoop(min_speakers,
                              TrialStop(max_speakers, Len(speech_features)),
                              speech_features, linkage, silhouette, st0)
        IN
        IF st.raised THEN st
        ELSE IF ~FitDefined(speech_features, st.best_n_clusters)
        THEN [st EXCEPT !.raised = TRUE, !.fits = Append(@, st.best_n_clusters)]
        ELSE
          LET cluster_labels   == IF st.fits # <<>> THEN st.cluster_labels
                                  ELSE fit_predict(speech_features,
                                                   st.best_n_clusters, linkage)
              speaker_segments == FirstPass(cluster_labels, speech_frames, 2,
                                            cluster_labels[1], speech_frames[1])
          IN  [st EXCEPT !.clustered = TRUE,
                         !.fits = Append(@, st.best_n_clusters),
                         !.cluster_labels = cluster_labels,
                         !.speaker_segments = speaker_segments,
                         !.merged_segments = MergePass(speaker_segments)]

cluster_speakers(features, frames, vad_segments, min_speakers, max_speakers, linkage, silhouette) ==
    IF vad_segments = <<>> THEN NoClustering
    ELSE IF Len(features) # Len(frames)
    \* features[speech_mask]: the boolean index must be as long as the array
    THEN [NoClustering EXCEPT !.raised = TRUE]
    ELSE
      LET idx             == SpeechIdx(frames, vad_segments, 1)
          speech_features == Masked(features, idx)
          speech_frames   == Masked(frames, idx)
      IN
      IF Len(speech_features) = 0 THEN NoClustering
      ELSE
        LET st0 == [NoClustering EXCEPT !.speech_frames = speech_frames,
                                        !.best_n_clusters = min_speakers]
            st  == SearchLoop(min_speakers,
                              TrialStop(max_speakers, Len(speech_features)),
                              speech_features, linkage, silhouette, st0)
        IN
        IF st.raised THEN st
        ELSE IF ~FitDefined(speech_features, st.best_n_clusters)
        THEN [st EXCEPT !.raised = TRUE, !.fits = Append(@, st.best_n_clusters)]
        ELSE
          LET cluster_labels   == fit_predict(speech_features, st.best_n_clusters,
                                              linkage)
              speaker_segments == FirstPass(cluster_labels, speech_frames, 2,
                                            cluster_labels[1], speech_frames[1])
          IN  [st EXCEPT !.clustered = TRUE,
                         !.fits = Append(@, st.best_n_clusters),
                         !.cluster_labels = cluster_labels,
                         !.speaker_segments = speaker_segments,
                         !.merged_segments = MergePass(speaker_segments)]

\* ------------------------------------------------------------------------
\* Inputs the model draws
\* ------------------------------------------------------------------------
\* gaps between consecutive frame timestamps given to cluster_speakers alone:
\* 0.25 s, exactly 1.0 s, 1.25 s
FrameGaps == {SR \div 4, SR, SR + SR \div 4}

RECURSIVE FrameSeqsOfLen(_)
FrameSeqsOfLen(n) ==
    IF n = 1 THEN {<<0>>}
    ELSE {Append(f, Last(f) + g) : f \in FrameSeqsOfLen(n - 1), g \in FrameGaps}

\* strictly increasing timestamps
FrameSeqs == UNION {FrameSeqsOfLen(n) : n \in 1..MaxFrames}

\* feature rows 1..n
Rows(n) == [i \in 1..n |-> i]

\* voice intervals as the VAD returns them: at least 0.5 s long, sorted,
\* disjoint; here with frame timestamps as bounds, and one interval that
\* lies after every frame
FrameIntervals(frames) ==
    {<<frames[i], frames[j]>> : i, j \in 1..Len(frames)}
        \cap {iv \in Range(frames) \X Range(frames) : 2 * (iv[2] - iv[1]) >= SR}

VadLists(frames) ==
    {<<>>, <<<<Last(frames) + SR, Last(frames) + 2 * SR>>>>}
    \cup {<<a>> : a \in FrameIntervals(frames)}
    \cup {<<p[1], p[2]>> : p \in {q \in FrameIntervals(frames) \X FrameIntervals(frames) :
                                        q[1][2] < q[2][1]}}

\* every dendrogram over the rows of the partition cl
RECURSIVE LinkagesFrom(_)
LinkagesFrom(cl) ==
    LET reps == {cl[r] : r \in DOMAIN cl}
    IN  IF Cardinality(reps) <= 1 THEN {<<>>}
        ELSE UNION {{<<p>> \o rest : rest \in LinkagesFrom(Join(cl, p[1], p[2]))} :
                        p \in {q \in reps \X reps : q[1] < q[2]}}

Linkages(n) == LinkagesFrom(Rows(n))

\* a score for every cut silhouette_score is defined on
Silhouettes(n) == [2..(n - 1) -> Scores]

\* the silhouettes that make one candidate count the single best one
PeakedSilhouettes(n) ==
    {[k \in 2..(n - 1) |-> IF k = b THEN 1 ELSE 0] : b \in 2..Max2(2, n - 1)}

\* (min_speakers, max_speakers) where the timestamps and intervals vary: one
\* cluster, a search over every count, and the largest count alone
AssemblyRanges == {<<1, 1>>, <<1, MaxSpeakersArg>>, <<MaxSpeakersArg, MaxSpeakersArg>>}

\* the scores vary where the search has more than one candidate to choose from
AssemblySilhouettes(range, n) ==
    IF range[1] < range[2] THEN PeakedSilhouettes(n) ELSE {[k \in 2..(n - 1) |-> 0]}

\* the times of the segments given to the merge pass alone: 0, 0.25 s, 1.0 s
MergeTimes == {0, SR \div 4, SR}

MergeSegments ==
    {seg \in [speaker : 0..1, start : MergeTimes, end : MergeTimes] :
        seg.start <= seg.end}

SegmentLists == UNION {[1..n -> MergeSegments] : n \in 0..MaxSegments}

\* ------------------------------------------------------------------------
\* extract_features
\* ------------------------------------------------------------------------
\* features = np.vstack([mfccs, delta_mfccs, spectral_contrast]).T has one
\* row per analysis frame and n_mfcc + n_mfcc + n_contrast columns
NumFeatureDims == n_mfcc + n_mfcc + n_contrast

\* librosa.times_like(features, sr=sr): one timestamp per entry of the LAST
\* axis of its argument, i.e. per column of the transposed matrix, spaced by
\* the default hop of 512 samples
times_like(n_last_axis) == [f \in 1..n_last_axis |-> frames_to_time(f - 1)]

\* ------------------------------------------------------------------------
\* The audio files process_diarization is given
\* ------------------------------------------------------------------------
\* rows a..b, chained: each row joins the cluster of the row before it
Chain(a, b) == [m \in 1..(b - a) |-> <<a + m - 1, a + m>>]

\* a signal: its per-frame activity (one entry per analysis frame), and the
\* dendrogram and silhouettes of its feature rows
Audio(signal) ==
    IF signal = "silence"
    THEN [active |-> Repeat(FALSE, 17), linkage |-> Chain(1, 17),
          silhouette |-> [k \in 2..16 |-> 0]]
    ELSE IF signal = "short"
    \* 17 active frames: one voice interval of 0.512 s
    THEN [active |-> Repeat(TRUE, 17), linkage |-> Chain(1, 17),
          silhouette |-> [k \in 2..16 |-> 0]]
    ELSE IF signal = "interview"
    \* 47 frames of speech without a pause: one voice on rows 1..16 and again
    \* on rows 33..47, another on rows 17..32; the rows of the first voice
    \* are joined first, then those of the second, then the two voices
    THEN [active |-> Repeat(TRUE, 47),
          linkage |-> Chain(1, 16) \o Chain(33, 47) \o <<<<1, 33>>>>
                      \o Chain(17, 32) \o <<<<1, 17>>>>,
          silhouette |-> [k \in 2..46 |-> IF k = 2 THEN 1 ELSE 0]]
    \* "dialogue": 47 frames, two voices of 17 frames around a pause of 13;
    \* the rows of a voice are joined first, then the pause, then the voices
    ELSE [active |-> Expand(TRUE, <<17, 13, 17>>),
          linkage |-> Chain(1, 17) \o Chain(31, 47) \o Chain(18, 30)
                      \o <<<<17, 18>>, <<1, 31>>>>,
          silhouette |-> [k \in 2..46 |-> IF k = 2 THEN 1 ELSE 0]]

Signals == {"silence", "short", "dialogue", "interview"}

\* len(y): the analysis frames are centred, 1 + len(y) // hop_length of them
NumSamples(signal) == (Len(Audio(signal).active) - 1) * hop_length

\* (min_speakers, max_speakers) of the calls the model makes
SpeakerRanges == {<<1, 3>>, <<3, 1>>, <<0, 1>>}

\* ------------------------------------------------------------------------
\* Files
\* ------------------------------------------------------------------------
Invocations == {1, 2}

\* a path is <<directory, file name>>; invocation 1 is given a.wav, and
\* invocation 2 another file, of the same directory or of another one
InputPaths(i) ==
    IF i = 1 THEN {<<"d1", "a.wav">>}
    ELSE {<<"d1", "b.wav">>, <<"d2", "b.wav">>}

\* os.path.join(os.path.dirname(audio_path), "temp_diarize.wav")
TempWav(audio_path) == <<audio_path[1], "temp_diarize.wav">>

Paths == UNION {InputPaths(i) : i \in Invocations}
         \cup {TempWav(p) : p \in UNION {InputPaths(i) : i \in Invocations}}

\* a file's content: the signal it holds and who wrote it (0: the caller)
Absent == [signal |-> "absent", writer |-> 0]

NoAudio == [signal |-> "none", writer |-> 0]

\* ------------------------------------------------------------------------
\* State
\* ------------------------------------------------------------------------
VARIABLES
    vad_in,      \* detect_voice_activity alone: the activity pattern
    vad_out,     \* its returned interval list
    vad_pc,      \* "call" before the call, "done" after it
    cs_in,       \* cluster_speakers alone: its arguments and the library's
                 \* functions of the features (linkage, silhouette)
    cs_out,      \* what the call left behind
    cs_pc,       \* "call" before the call, "done" after it
    mg_in,       \* the merge pass alone: the segment list it is given
    mg_out,      \* the lists after each application, in order
    fs,          \* the file system: path -> content, or Absent
    inv,         \* the process_diarization invocations: invocation -> its
                 \* position, arguments and locals
    req,         \* one request to POST /diarize: the handler's position,
                 \* locals, stored files and response
    gs           \* one call of generate_simplified_segments: its position
                 \* and locals

varsVAD == <<vad_in, vad_out, vad_pc>>

varsCS == <<cs_in, cs_out, cs_pc>>

varsMG == <<mg_in, mg_out>>

varsPD == <<fs, inv>>

vars == <<vad_in, vad_out, vad_pc, cs_in, cs_out, cs_pc, mg_in, mg_out, fs, inv, req, gs>>

IdleVAD == vad_in = <<>> /\ vad_out = <<>> /\ vad_pc = "idle"

IdleCS == cs_in = <<>> /\ cs_out = <<>> /\ cs_pc = "idle"

IdleMG == mg_in = <<>> /\ mg_out = <<>>

IdlePD == fs = <<>> /\ inv = <<>>

IdleReq == req = <<>>

IdleGen == gs = <<>>

\* ------------------------------------------------------------------------
\* detect_voice_activity applied to every drawn pattern
\* ------------------------------------------------------------------------
InitVAD ==
    /\ vad_in \in ActivityPatterns
    /\ vad_out = <<>>
    /\ vad_pc = "call"
    /\ IdleCS
    /\ IdleMG
    /\ IdlePD
    /\ IdleReq
    /\ IdleGen

RunVAD ==
    /\ vad_pc = "call"
    /\ vad_out' = detect_voice_activity(vad_in)
    /\ vad_pc' = "done"
    /\ UNCHANGED <<vad_in, varsCS, varsMG, varsPD, req, gs>>

NextVAD == RunVAD

SpecVAD == InitVAD /\ [][NextVAD]_vars

\* ------------------------------------------------------------------------
\* cluster_speakers applied to every drawn input
\* ------------------------------------------------------------------------
InitCluster ==
    /\ \E frames \in FrameSeqs :
       \E vad_segments \in VadLists(frames) :
       \E range \in AssemblyRanges :
       \E linkage \in Linkages(Len(frames)) :
       \E silhouette \in AssemblySilhouettes(range, Len(frames)) :
          cs_in = [features |-> Rows(Len(frames)), frames |-> frames,
                   vad_segments |-> vad_segments,
                   min_speakers |-> range[1], max_speakers |-> range[2],
                   linkage |-> linkage, silhouette |-> silhouette]
    /\ cs_out = <<>>
    /\ cs_pc = "call"
    /\ IdleVAD
    /\ IdleMG
    /\ IdlePD
    /\ IdleReq
    /\ IdleGen

RunCluster ==
    /\ cs_pc = "call"
    /\ cs_out' = cluster_speakers(cs_in.features, cs_in.frames, cs_in.vad_segments,
                                  cs_in.min_speakers, cs_in.max_speakers,
                                  cs_in.linkage, cs_in.silhouette)
    /\ cs_pc' = "done"
    /\ UNCHANGED <<cs_in, varsVAD, varsMG, varsPD, req, gs>>

NextCluster == RunCluster

SpecCluster == InitCluster /\ [][NextCluster]_vars

\* cluster_speakers on n evenly spaced frames that are all speech, for every
\* range of speaker counts, dendrogram and silhouette
InitSearch ==
    /\ \E n \in 1..MaxFrames :
       \E min_speakers \in 0..MaxSpeakersArg, max_speakers \in 0..MaxSpeakersArg :
       \E linkage \in Linkages(n) :
       \E silhouette \in Silhouettes(n) :
          cs_in = [features |-> Rows(n), frames |-> times_like(n),
                   vad_segments |-> <<<<0, frames_to_time(n - 1) + SR>>>>,
                   min_speakers |-> min_speakers, max_speakers |-> max_speakers,
                   linkage |-> linkage, silhouette |-> silhouette]
    /\ cs_out = <<>>
    /\ cs_pc = "call"
    /\ IdleVAD
    /\ IdleMG
    /\ IdlePD
    /\ IdleReq
    /\ IdleGen

SpecSearch == InitSearch /\ [][NextCluster]_vars

\* ------------------------------------------------------------------------
\* The merge pass applied to every drawn segment list, and again to its
\* own output
\* ------------------------------------------------------------------------
InitMerge ==
    /\ mg_in \in SegmentLists
    /\ mg_out = <<>>
    /\ IdleVAD
    /\ IdleCS
    /\ IdlePD
    /\ IdleReq
    /\ IdleGen

RunMerge ==
    /\ Len(mg_out) = 0
    /\ mg_out' = <<MergePass(mg_in)>>
    /\ UNCHANGED <<mg_in, varsVAD, varsCS, varsPD, req, gs>>

RunMergeAgain ==
    /\ Len(mg_out) = 1
    /\ mg_out' = Append(mg_out, MergePass(mg_out[1]))
    /\ UNCHANGED <<mg_in, varsVAD, varsCS, varsPD, req, gs>>

NextMerge == RunMerge \/ RunMergeAgain

SpecMerge == InitMerge /\ [][NextMerge]_vars

\* ------------------------------------------------------------------------
\* convert_to_wav
\* ------------------------------------------------------------------------
\* mutant of ConvertNext: a failed ffmpeg run ends the call
ConvertNextNoFallback(strategy, ok) ==
    IF ok THEN "extract" ELSE "raised"

\* mutant of ConvertNext: the fallback is run after ffmpeg whatever it returned
ConvertNextAlwaysFallback(strategy, ok) ==
    IF strategy = "ffmpeg" THEN "librosa"
    ELSE IF ok THEN "extract" ELSE "raised"

\* mutant of ConvertNext: a failure of the fallback is swallowed and the
\* caller goes on
ConvertNextSwallowed(strategy, ok) ==
    IF ok THEN "extract"
    ELSE IF strategy = "ffmpeg" THEN "librosa" ELSE "extract"

\* where the call goes after a strategy ran: `return output_path` (the caller
\* goes on to extract_features), the except branch with the librosa
\* strategy, or the final raise
ConvertNext(strategy, ok) ==
    IF ok THEN "extract"
    ELSE IF strategy = "ffmpeg" THEN "librosa" ELSE "raised"

\* how convert_to_wav has ended: "returned" (output_path), "raised", or
\* "none" while it runs
ConvertOutcome(next) ==
    IF next = "extract" THEN "returned"
    ELSE IF next = "raised" THEN "raised" ELSE "none"

\* ------------------------------------------------------------------------
\* process_diarization, one action per step of an invocation
\* ------------------------------------------------------------------------
IdleInvocation ==
    [pc |-> "idle", audio_path |-> <<"", "">>, temp_wav |-> <<"", "">>,
     min_speakers |-> 0, max_speakers |-> 0,
     ffmpeg |-> "none", librosa |-> "none", attempts |-> <<>>,
     convert |-> "none",
     y |-> NoAudio, features |-> <<>>, frames |-> <<>>,
     vad_segments |-> <<>>, cs |-> NoClustering, stages |-> {},
     result |-> <<>>]

Init ==
    /\ fs = [p \in Paths |-> Absent]
    /\ inv = [i \in Invocations |-> IdleInvocation]
    /\ IdleVAD
    /\ IdleCS
    /\ IdleMG
    /\ IdleReq
    /\ IdleGen

\* the caller has stored an audio file and calls
\* process_diarization(audio_path, min_speakers, max_speakers); the first
\* statement computes temp_wav.  No argument is checked.
Call(i) ==
    /\ inv[i].pc = "idle"
    /\ \E audio_path \in InputPaths(i), signal \in Signals, range \in SpeakerRanges :
        /\ fs' = [fs EXCEPT ![audio_path] = [signal |-> signal, writer |-> 0]]
        /\ inv' = [inv EXCEPT ![i] =
                     [@ EXCEPT !.pc = "ffmpeg",
                               !.audio_path = audio_path,
                               !.temp_wav = TempWav(audio_path),
                               !.min_speakers = range[1],
                               !.max_speakers = range[2]]]
    /\ UNCHANGED <<varsVAD, varsCS, varsMG, req, gs>>

\* convert_to_wav, the try block: ffmpeg -y -i input_path ... output_path.
\* Whether it succeeds is the environment's and the file's matter.
TryFfmpeg(i) ==
    /\ inv[i].pc = "ffmpeg"
    /\ \E ok \in BOOLEAN :
        /\ fs' = IF ok
                 THEN [fs EXCEPT ![inv[i].temp_wav] =
                          [signal |-> fs[inv[i].audio_path].signal, writer |-> i]]
                 ELSE fs
        /\ inv' = [inv EXCEPT ![i] =
                     [@ EXCEPT !.pc = ConvertNext("ffmpeg", ok),
                               !.ffmpeg = IF ok THEN "ok" ELSE "failed",
                               !.attempts = Append(@, "ffmpeg"),
                               !.convert = ConvertOutcome(ConvertNext("ffmpeg", ok)),
                               !.stages = @ \cup {"convert"}]]
    /\ UNCHANGED <<varsVAD, varsCS, varsMG, req, gs>>

\* convert_to_wav, the except branch: librosa.load, resample, sf.write
TryLibrosa(i) ==
    /\ inv[i].pc = "librosa"
    /\ \E ok \in BOOLEAN :
        /\ fs' = IF ok
                 THEN [fs EXCEPT ![inv[i].temp_wav] =
                          [signal |-> fs[inv[i].audio_path].signal, writer |-> i]]
                 ELSE fs
        /\ inv' = [inv EXCEPT ![i] =
                     [@ EXCEPT !.pc = ConvertNext("librosa", ok),
                               !.librosa = IF ok THEN "ok" ELSE "failed",
                               !.attempts = Append(@, "librosa"),
                               !.convert = ConvertOutcome(ConvertNext("librosa", ok))]]
    /\ UNCHANGED <<varsVAD, varsCS, varsMG, req, gs>>

\* extract_features(temp_wav): librosa.load raises when the file is gone
Extract(i) ==
    /\ inv[i].pc = "extract"
    /\ LET wav == fs[inv[i].temp_wav]
       IN  inv' = [inv EXCEPT ![i] =
                     IF wav = Absent
                     THEN [@ EXCEPT !.pc = "raised", !.stages = @ \cup {"extract"}]
                     ELSE [@ EXCEPT
                             !.pc = "vad",
                             !.y = wav,
                             !.features = Rows(Len(Audio(wav.signal).active)),
                             !.frames = times_like(NumFeatureDims),
                             !.stages = @ \cup {"extract"}]]
    /\ UNCHANGED <<fs, varsVAD, varsCS, varsMG, req, gs>>

\* vad_segments = detect_voice_activity(y, sr)
Vad(i) ==
    /\ inv[i].pc = "vad"
    /\ inv' = [inv EXCEPT ![i] =
                 [@ EXCEPT !.pc = "cluster",
                           !.vad_segments =
                               detect_voice_activity(Audio(inv[i].y.signal).active),
                           !.stages = @ \cup {"vad"}]]
    /\ UNCHANGED <<fs, varsVAD, varsCS, varsMG, req, gs>>

\* mutant of Cluster: max_speakers is read from state shared by the
\* invocations (the other invocation's argument) instead of the call's own
ClusterSharedRange(i) ==
    /\ inv[i].pc = "cluster"
    /\ LET a  == Audio(inv[i].y.signal)
           o  == CHOOSE j \in Invocations : j # i
           cs == cluster_speakers(inv[i].features, inv[i].frames,
                                  inv[i].vad_segments, inv[i].min_speakers,
                                  inv[o].max_speakers, a.linkage, a.silhouette)
       IN  inv' = [inv EXCEPT ![i] =
                     [@ EXCEPT !.pc = IF cs.raised THEN "raised" ELSE "exists",
                               !.cs = cs,
                               !.stages = @ \cup {"cluster"}]]
    /\ UNCHANGED <<fs, varsVAD, varsCS, varsMG, req, gs>>

\* speaker_segments = cluster_speakers(features, frames, vad_segments, ...);
\* an exception leaves the function at once
Cluster(i) ==
    /\ inv[i].pc = "cluster"
    /\ LET a  == Audio(inv[i].y.signal)
           cs == cluster_speakers(inv[i].features, inv[i].frames,
                                  inv[i].vad_segments, inv[i].min_speakers,
                                  inv[i].max_speakers, a.linkage, a.silhouette)
       IN  inv' = [inv EXCEPT ![i] =
                     [@ EXCEPT !.pc = IF cs.raised THEN "raised" ELSE "exists",
                               !.cs = cs,
                               !.stages = @ \cup {"cluster"}]]
    /\ UNCHANGED <<fs, varsVAD, varsCS, varsMG, req, gs>>

\* if os.path.exists(temp_wav):
Exists(i) ==
    /\ inv[i].pc = "exists"
    /\ inv' = [inv EXCEPT ![i] =
                 [@ EXCEPT !.pc = IF fs[inv[i].temp_wav] # Absent
                                  THEN "remove" ELSE "result"]]
    /\ UNCHANGED <<fs, varsVAD, varsCS, varsMG, req, gs>>

\* os.remove(temp_wav): FileNotFoundError when the file is gone by now
Remove(i) ==
    /\ inv[i].pc = "remove"
    /\ IF fs[inv[i].temp_wav] = Absent
       THEN /\ inv' = [inv EXCEPT ![i] = [@ EXCEPT !.pc = "raised"]]
            /\ fs' = fs
       ELSE /\ inv' = [inv EXCEPT ![i] = [@ EXCEPT !.pc = "result"]]
            /\ fs' = [fs EXCEPT ![inv[i].temp_wav] = Absent]
    /\ UNCHANGED <<varsVAD, varsCS, varsMG, req, gs>>

\* mutant of NumSpeakers: the segments are counted, not their speakers
NumSpeakersAsSegments(speaker_segments) == Len(speaker_segments)

\* len(set(segment['speaker'] for segment in speaker_segments))
\*     if speaker_segments else 0
NumSpeakers(speaker_segments) ==
    IF speaker_segments = <<>> THEN 0
    ELSE Cardinality({speaker_segments[j].speaker : j \in 1..Len(speaker_segments)})

\* result = {...}; return result
Result(i) ==
    /\ inv[i].pc = "result"
    /\ inv' = [inv EXCEPT ![i] =
                 [@ EXCEPT !.pc = "returned",
                           !.result = <<[audio_path |-> inv[i].audio_path,
                                         duration |-> NumSamples(inv[i].y.signal),
                                         num_speakers |->
                                             NumSpeakers(inv[i].cs.merged_segments),
                                         segments |-> inv[i].cs.merged_segments]>>]]
    /\ UNCHANGED <<fs, varsVAD, varsCS, varsMG, req, gs>>

Next ==
    \E i \in Invocations :
        \/ Call(i)
        \/ TryFfmpeg(i)
        \/ TryLibrosa(i)
        \/ Extract(i)
        \/ Vad(i)
        \/ Cluster(i)
        \/ Exists(i)
        \/ Remove(i)
        \/ Result(i)

Spec == Init /\ [][Next]_vars

\* ------------------------------------------------------------------------
\* process_diarization called once, alone, also on a file that is named like
\* its temporary file
\* ------------------------------------------------------------------------
LoneInvocation == 1

LoneInputPaths == {<<"d1", "a.wav">>, <<"d1", "temp_diarize.wav">>}

\* as Call, with the input path drawn from LoneInputPaths
CallLone(i) ==
    /\ inv[i].pc = "idle"
    /\ \E audio_path \in LoneInputPaths, signal \in Signals, range \in SpeakerRanges :
        /\ fs' = [fs EXCEPT ![audio_path] = [signal |-> signal, writer |-> 0]]
        /\ inv' = [inv EXCEPT ![i] =
                     [@ EXCEPT !.pc = "ffmpeg",
                               !.audio_path = audio_path,
                               !.temp_wav = TempWav(audio_path),
                               !.min_speakers = range[1],
                               !.max_speakers = range[2]]]
    /\ UNCHANGED <<varsVAD, varsCS, varsMG, req, gs>>

NextLone ==
    \/ CallLone(LoneInvocation)
    \/ TryFfmpeg(LoneInvocation)
    \/ TryLibrosa(LoneInvocation)
    \/ Extract(LoneInvocation)
    \/ Vad(LoneInvocation)
    \/ Cluster(LoneInvocation)
    \/ Exists(LoneInvocation)
    \/ Remove(LoneInvocation)
    \/ Result(LoneInvocation)

SpecLone == Init /\ [][NextLone]_vars

\* ------------------------------------------------------------------------
\* index.py: the handler of POST /diarize, one action per step of a request
\* ------------------------------------------------------------------------
\* what the request carries as its file: no file part, an empty file name, a
\* name with an extension that is not allowed, a WAV file, an MP3 file
Uploads == {"none", "empty", "txt", "wav", "mp3"}

\* the form values of min_speakers and max_speakers: <<v>> for a text that
\* int() reads as v, with v below, inside and above the limits, and <<>> for
\* a text that int() rejects
FormValues == {<<>>} \cup {<<v>> : v \in {-1, 0, 1, 5, 20, 21}}

\* the upper limit of both counts in the clamping
SpeakersLimit == 20

\* mutant of ClampMax: max_speakers is clamped like min_speakers, without
\* regard to it
ClampMaxAlone(min_speakers, max_speakers) ==
    Max2(1, Min2(max_speakers, SpeakersLimit))

\* min_speakers = max(1, min(min_speakers, 20))
ClampMin(min_speakers) == Max2(1, Min2(min_speakers, SpeakersLimit))

\* max_speakers = max(min_speakers, min(max_speakers, 20))
ClampMax(min_speakers, max_speakers) ==
    Max2(min_speakers, Min2(max_speakers, SpeakersLimit))

\* the keys of the dictionary process_diarization returns
ResultKeys == {"audio_path", "duration", "num_speakers", "segments"}

\* a request before the handler runs
NewRequest(upload, form_min, form_max) ==
    [pc |-> "validate", upload |-> upload,
     form_min |-> form_min, form_max |-> form_max,
     min_speakers |-> 0, max_speakers |-> 0,
     stored |-> {}, input_path |-> "none",
     failed |-> "none", core |-> "none", called_with |-> <<>>,
     result |-> {}, status |-> 0, body |-> {}]

InitHandler ==
    /\ \E upload \in Uploads, form_min \in FormValues, form_max \in FormValues :
          req = NewRequest(upload, form_min, form_max)
    /\ IdleVAD
    /\ IdleCS
    /\ IdleMG
    /\ IdlePD
    /\ IdleGen

\* lines 80-91: the three checks that answer 400
HValidate ==
    /\ req.pc = "validate"
    /\ req' = IF req.upload \in {"none", "empty", "txt"}
              THEN [req EXCEPT !.pc = "done", !.status = 400, !.body = {"error"}]
              ELSE [req EXCEPT !.pc = "params"]
    /\ UNCHANGED <<varsVAD, varsCS, varsMG, varsPD, gs>>

\* lines 95-101: int() of the form values, then the clamping
HParams ==
    /\ req.pc = "params"
    /\ req' = IF req.form_min = <<>> \/ req.form_max = <<>>
              THEN [req EXCEPT !.pc = "except", !.failed = "params"]
              ELSE [req EXCEPT
                      !.pc = "save",
                      !.min_speakers = ClampMin(req.form_min[1]),
                      !.max_speakers = ClampMax(ClampMin(req.form_min[1]),
                                                req.form_max[1])]
    /\ UNCHANGED <<varsVAD, varsCS, varsMG, varsPD, gs>>

\* lines 104-109: the upload is saved as <uuid>_<filename>
HSave ==
    /\ req.pc = "save"
    /\ req' = [req EXCEPT !.pc = IF req.upload = "wav" THEN "duration" ELSE "convert",
                          !.stored = @ \cup {"upload"},
                          !.input_path = "upload"]
    /\ UNCHANGED <<varsVAD, varsCS, varsMG, varsPD, gs>>

\* lines 112-116: convert_to_wav(input_path, wav_path), then the upload is
\* removed and the WAV takes its place; convert_to_wav raises when both of
\* its strategies fail
HConvert ==
    /\ req.pc = "convert"
    /\ \E ok \in BOOLEAN :
          req' = IF ok
                 THEN [req EXCEPT !.pc = "duration",
                                  !.stored = (@ \cup {"wav"}) \ {"upload"},
                                  !.input_path = "wav"]
                 ELSE [req EXCEPT !.pc = "except", !.failed = "convert"]
    /\ UNCHANGED <<varsVAD, varsCS, varsMG, varsPD, gs>>

\* line 119: get_audio_duration(input_path) raises when ffprobe and librosa
\* both fail
HDuration ==
    /\ req.pc = "duration"
    /\ \E ok \in BOOLEAN :
          req' = IF ok THEN [req EXCEPT !.pc = "diarize"]
                 ELSE [req EXCEPT !.pc = "except", !.failed = "duration"]
    /\ UNCHANGED <<varsVAD, varsCS, varsMG, varsPD, gs>>

\* lines 123-128: process_diarization(input_path, min_speakers, max_speakers)
\* returns its dictionary or raises
HDiarize ==
    /\ req.pc = "diarize"
    /\ \E ok \in BOOLEAN :
          req' = IF ok
                 THEN [req EXCEPT !.pc = "cleanup", !.core = "returned",
                                  !.called_with = <<req.min_speakers, req.max_speakers>>,
                                  !.result = ResultKeys]
                 ELSE [req EXCEPT !.pc = "except", !.core = "raised",
                                  !.failed = "diarize",
                                  !.called_with = <<req.min_speakers, req.max_speakers>>]
    /\ UNCHANGED <<varsVAD, varsCS, varsMG, varsPD, gs>>

\* lines 131-135: processing_time is added, the input file is removed
HCleanup ==
    /\ req.pc = "cleanup"
    /\ req' = [req EXCEPT !.pc = "log",
                          !.result = @ \cup {"processing_time"},
                          !.stored = @ \ {req.input_path}]
    /\ UNCHANGED <<varsVAD, varsCS, varsMG, varsPD, gs>>

\* lines 138-140: the log line reads result['speakers'] and result['segments']
\* (KeyError for a missing key), then the result is returned as JSON
HLogAndRespond ==
    /\ req.pc = "log"
    /\ req' = IF {"speakers", "segments"} \subseteq req.result
              THEN [req EXCEPT !.pc = "done", !.status = 200, !.body = req.result]
              ELSE [req EXCEPT !.pc = "except", !.failed = "log"]
    /\ UNCHANGED <<varsVAD, varsCS, varsMG, varsPD, gs>>

\* lines 142-144: every exception of the try block is answered with 500
HExcept ==
    /\ req.pc = "except"
    /\ req' = [req EXCEPT !.pc = "done", !.status = 500, !.body = {"error"}]
    /\ UNCHANGED <<varsVAD, varsCS, varsMG, varsPD, gs>>

NextHandler ==
    \/ HValidate
    \/ HParams
    \/ HSave
    \/ HConvert
    \/ HDuration
    \/ HDiarize
    \/ HCleanup
    \/ HLogAndRespond
    \/ HExcept

SpecHandler == InitHandler /\ [][NextHandler]_vars

\* ------------------------------------------------------------------------
\* run_simplified.py: generate_simplified_segments, one action per
\* iteration of its loop and one for what follows the loop.  Times are in
\* hundredths of a second.
\* ------------------------------------------------------------------------
\* min_segment_duration = 0.5
min_segment_duration == 50

\* max_segment_duration = 3.0
max_segment_duration == 300

\* the audio lasts 0.1 s .. MaxGenDuration * 0.1 s
MaxGenDuration == 12

GenDurations == {10 * d : d \in 1..MaxGenDuration}

\* the draws of random.uniform(min_segment_duration, max_segment_duration):
\* both ends and 1.2 s
SegmentDurations == {min_segment_duration, 120, max_segment_duration}

\* the draws of random.uniform(0.0, 0.2): both ends and 0.1 s
Overlaps == {0, 10, 20}

\* num_speakers of the calls
GenSpeakers == {1, 2}

\* if current_time + segment_duration > duration:
\*     segment_duration = duration - current_time
Truncated(current_time, segment_duration, duration) ==
    IF current_time + segment_duration > duration
    THEN duration - current_time ELSE segment_duration

\* if segment_duration < 0.3: break
TooShort(segment_duration) == segment_duration < 30

\* current_time += segment_duration - overlap; if current_time <= 0:
\* current_time = 0.01
Advance(current_time, segment_duration, overlap) ==
    LET t == current_time + segment_duration - overlap
    IN  IF t <= 0 THEN 1 ELSE t

\* segments.sort(key=lambda x: x["start"]): a stable sort, here by insertion
RECURSIVE InsertByStart(_, _)
InsertByStart(sorted, seg) ==
    IF sorted = <<>> THEN <<seg>>
    ELSE IF Last(sorted).start <= seg.start THEN Append(sorted, seg)
         ELSE Append(InsertByStart(SubSeq(sorted, 1, Len(sorted) - 1), seg),
                     Last(sorted))

RECURSIVE SortByStart(_)
SortByStart(segments) ==
    IF segments = <<>> THEN <<>>
    ELSE InsertByStart(SortByStart(SubSeq(segments, 1, Len(segments) - 1)),
                       Last(segments))

\* the loop  for i in range(1, len(segments)); i is the 1-based position of
\* segments[i] of the code
RECURSIVE FixFrom(_, _)
FixFrom(segments, i) ==
    IF i > Len(segments) THEN segments
    ELSE IF segments[i].start < segments[i - 1].end
         THEN FixFrom([segments EXCEPT ![i].start = segments[i - 1].end], i + 1)
         ELSE FixFrom(segments, i + 1)

\* mutant of FixOverlaps: the overlaps are left as they are
FixOverlapsSkipped(segments) == segments

FixOverlaps(segments) == FixFrom(segments, 2)

InitGen ==
    /\ \E duration \in GenDurations, num_speakers \in GenSpeakers :
          gs = [pc |-> "loop", duration |-> duration, num_speakers |-> num_speakers,
                current_time |-> 0, segments |-> <<>>, appended |-> <<>>]
    /\ IdleVAD
    /\ IdleCS
    /\ IdleMG
    /\ IdlePD
    /\ IdleReq

\* one iteration of  while current_time < duration  (lines 113-143)
GenIterate ==
    /\ gs.pc = "loop"
    /\ gs.current_time < gs.duration
    /\ \E drawn \in SegmentDurations, speaker \in 1..gs.num_speakers, overlap \in Overlaps :
          LET segment_duration == Truncated(gs.current_time, drawn, gs.duration)
              segment == [start |-> gs.current_time,
                          end |-> gs.current_time + segment_duration,
                          speaker |-> speaker]
          IN  gs' = IF TooShort(segment_duration)
                    THEN [gs EXCEPT !.pc = "after"]
                    ELSE [gs EXCEPT
                            !.segments = Append(@, segment),
                            !.appended = Append(@, segment),
                            !.current_time =
                                Advance(gs.current_time, segment_duration, overlap)]
    /\ UNCHANGED <<varsVAD, varsCS, varsMG, varsPD, req>>

\* the loop has ended, by its condition or by break: the sort, the
\* correction of the overlaps and the return (lines 146-153)
GenFinish ==
    /\ \/ gs.pc = "after"
       \/ gs.pc = "loop" /\ gs.current_time >= gs.duration
    /\ gs' = [gs EXCEPT !.pc = "returned",
                        !.segments = FixOverlaps(SortByStart(gs.segments))]
    /\ UNCHANGED <<varsVAD, varsCS, varsMG, varsPD, req>>

NextGen == GenIterate \/ GenFinish

SpecGen == InitGen /\ [][NextGen]_vars

\* a call that is not interrupted goes on with its next step
SpecGenFair == SpecGen /\ WF_vars(NextGen)

\* C1: the intervals detect_voice_activity returns are sorted by start,
\* pairwise disjoint (each end strictly before the next start) and each at
\* least 0.5 s long.
VadSortedDisjointFloor ==
    vad_pc = "done" =>
        /\ \A i \in 1..Len(vad_out) : 2 * (vad_out[i][2] - vad_out[i][1]) >= SR
        /\ \A i \in 1..(Len(vad_out) - 1) : vad_out[i][2] < vad_out[i + 1][1]
        /\ \A i \in 1..(Len(vad_out) - 1) : vad_out[i][1] < vad_out[i + 1][1]

\* two intervals returned
VadTwoIntervals == vad_pc = "done" /\ Len(vad_out) = 2

\* ------------------------------------------------------------------------
\* Properties of cluster_speakers
\* ------------------------------------------------------------------------
\* the call returned a segment list built by the two passes
Assembled == cs_pc = "done" /\ ~cs_out.raised /\ cs_out.clustered

\* the segment lies inside one voice interval
InOneInterval(seg, vad_segments) ==
    \E j \in 1..Len(vad_segments) :
        vad_segments[j][1] <= seg.start /\ seg.end <= vad_segments[j][2]

\* C2: the segments cluster_speakers returns are ordered by start and never
\* invert: each segment starts at or after the end of the one before it.
SegmentsOrdered ==
    Assembled =>
        \A j \in 1..(Len(cs_out.merged_segments) - 1) :
            /\ cs_out.merged_segments[j + 1].start >= cs_out.merged_segments[j].end
            /\ cs_out.merged_segments[j + 1].start >= cs_out.merged_segments[j].start

\* three segments returned, of frames the mask left gaps between
ThreeSegments ==
    /\ Assembled
    /\ Len(cs_out.merged_segments) = 3
    /\ Len(cs_out.speech_frames) < Len(cs_in.frames)

\* C3, as claimed: every returned segment lies inside one voice interval (the
\* intervals are disjoint, so a segment that lies in their union lies in one).
SegmentsInsideVoiceIntervals ==
    Assembled =>
        \A j \in 1..Len(cs_out.merged_segments) :
            InOneInterval(cs_out.merged_segments[j], cs_in.vad_segments)

\* C3, amended: every returned segment starts and ends at the timestamp of a
\* retained speech frame, so both ends lie inside voice intervals, and
\* consecutive retained frames inside a segment are at most 1.0 s apart: a
\* segment spans a gap between voice intervals only if the gap is crossed
\* by two retained frames at most 1.0 s apart.
SegmentsBridgeShortGapsOnly ==
    Assembled =>
        \A j \in 1..Len(cs_out.merged_segments) :
            LET seg == cs_out.merged_segments[j]
                sf  == cs_out.speech_frames
            IN  /\ seg.start \in Range(sf)
                /\ seg.end \in Range(sf)
                /\ InSpeech(seg.start, cs_in.vad_segments)
                /\ InSpeech(seg.end, cs_in.vad_segments)
                /\ \A p \in 1..(Len(sf) - 1) :
                       (seg.start <= sf[p] /\ sf[p + 1] <= seg.end)
                           => sf[p + 1] - sf[p] <= SR

\* a returned segment spans the gap between two voice intervals
SegmentSpansGap ==
    /\ Assembled
    /\ Len(cs_in.vad_segments) = 2
    /\ \E j \in 1..Len(cs_out.merged_segments) :
           /\ cs_out.merged_segments[j].start <= cs_in.vad_segments[1][2]
           /\ cs_out.merged_segments[j].end >= cs_in.vad_segments[2][1]

\* the counts k whose trial produced a silhouette score
ScoredCounts == {cs_out.silhouette_scores[j][1] : j \in 1..Len(cs_out.silhouette_scores)}

\* C6: when some candidate count gave a valid multi-cluster result, the
\* selected count is one of those candidates and lies in
\* [max(min_speakers, 2), max_speakers]; the selected count is the fallback
\* min_speakers, not a scored candidate, only when no candidate was valid.
SelectedCountInRange ==
    (cs_pc = "done" /\ cs_out.speech_frames # <<>>) =>
        /\ ScoredCounts # {} =>
              /\ cs_out.best_n_clusters \in ScoredCounts
              /\ cs_out.best_n_clusters >= Max2(cs_in.min_speakers, 2)
              /\ cs_out.best_n_clusters <= cs_in.max_speakers
        /\ ScoredCounts = {} => cs_out.best_n_clusters = cs_in.min_speakers

\* two candidates were scored and the selected count is not min_speakers
SelectedAmongTwo ==
    /\ cs_pc = "done"
    /\ Cardinality(ScoredCounts) = 2
    /\ cs_out.best_n_clusters # cs_in.min_speakers
    /\ cs_out.clustered

\* ------------------------------------------------------------------------
\* Properties of the merge pass
\* ------------------------------------------------------------------------
\* C9: the merge pass applied to its own output returns that output.
MergeIdempotent == Len(mg_out) = 2 => mg_out[2] = mg_out[1]

\* the pass was applied twice to a list it merged, and left two segments
MergedTwice ==
    /\ Len(mg_out) = 2
    /\ Len(mg_out[1]) = 2
    /\ Len(mg_in) = 3

\* the list given to the merge pass is ordered as the first pass orders its
\* segments: each one starts at or after the end of the one before it
MergeInputOrdered ==
    \A j \in 1..(Len(mg_in) - 1) : mg_in[j + 1].start >= mg_in[j].end

\* the j-th smallest element of the set G of positions
NthOf(G, j) == CHOOSE x \in G : Cardinality({y \in G : y < x}) = j - 1

\* the output list is the input list cut into groups of consecutive segments
\* that open at the positions G: each output segment has the speaker and
\* the start of the first segment of its group and the end of the last one,
\* and a group holds one speaker
MergedInGroups(G) ==
    /\ Cardinality(G) = Len(mg_out[1])
    /\ mg_in # <<>> => 1 \in G
    /\ \A j \in 1..Cardinality(G) :
          LET s == NthOf(G, j)
              e == IF j = Cardinality(G) THEN Len(mg_in) ELSE NthOf(G, j + 1) - 1
          IN  /\ mg_out[1][j].speaker = mg_in[s].speaker
              /\ mg_out[1][j].start = mg_in[s].start
              /\ mg_out[1][j].end = mg_in[e].end
              /\ \A i \in s..e : mg_in[i].speaker = mg_in[s].speaker

\* C20: after the merge pass no two consecutive segments have the same
\* speaker and a gap below 0.5 s; every output segment is a group of
\* consecutive input segments of one speaker, with the start of the first
\* and the end of the last, the groups in input order; and for an ordered
\* input, every input segment lies inside an output segment of its speaker
\* and the output is ordered too.
MergePostCondition ==
    Len(mg_out) >= 1 =>
        /\ \A j \in 1..(Len(mg_out[1]) - 1) :
              ~(/\ mg_out[1][j + 1].speaker = mg_out[1][j].speaker
                /\ 2 * (mg_out[1][j + 1].start - mg_out[1][j].end) < SR)
        /\ \E G \in SUBSET (1..Len(mg_in)) : MergedInGroups(G)
        /\ MergeInputOrdered =>
              /\ \A i \in 1..Len(mg_in) :
                    \E j \in 1..Len(mg_out[1]) :
                        /\ mg_out[1][j].speaker = mg_in[i].speaker
                        /\ mg_out[1][j].start <= mg_in[i].start
                        /\ mg_in[i].end <= mg_out[1][j].end
              /\ \A j \in 1..(Len(mg_out[1]) - 1) :
                    mg_out[1][j + 1].start >= mg_out[1][j].end

\* an ordered list of three segments was merged into two, and its last
\* segment into a longer one
MergedOrderedList ==
    /\ Len(mg_out) >= 1
    /\ MergeInputOrdered
    /\ Len(mg_in) = 3
    /\ Len(mg_out[1]) = 2
    /\ mg_out[1][2].start < mg_in[3].start
    /\ mg_in[2].end < mg_in[3].end

\* ------------------------------------------------------------------------
\* Properties of process_diarization and convert_to_wav
\* ------------------------------------------------------------------------
InvalidRange(i) ==
    inv[i].min_speakers > inv[i].max_speakers \/ inv[i].min_speakers < 1

\* C4, as claimed: a call with min_speakers > max_speakers or
\* min_speakers < 1 performs no conversion, feature extraction, VAD or
\* clustering and returns no result.
InvalidRangeRejected ==
    \A i \in Invocations :
        (inv[i].pc # "idle" /\ InvalidRange(i)) =>
            inv[i].stages = {} /\ inv[i].result = <<>>

\* the VAD of invocation i has returned no interval
NoSpeech(i) == "vad" \in inv[i].stages /\ inv[i].vad_segments = <<>>

\* C5, as claimed: once the VAD has returned zero intervals the invocation
\* does not raise, fits no clustering, and what it returns has
\* num_speakers = 0, no segment and the signal's duration.
NoSpeechCompletes ==
    \A i \in Invocations :
        NoSpeech(i) =>
            /\ inv[i].pc # "raised"
            /\ inv[i].cs.fits = <<>>
            /\ inv[i].pc = "returned" =>
                  /\ inv[i].result[1].num_speakers = 0
                  /\ inv[i].result[1].segments = <<>>
                  /\ inv[i].result[1].duration = NumSamples(inv[i].y.signal)

\* C7, as claimed: when an invocation has returned or raised, the temporary
\* WAV file it wrote does not exist.
TempRemovedOnEveryExit ==
    \A i \in Invocations :
        inv[i].pc \in {"returned", "raised"} => fs[inv[i].temp_wav].writer # i

\* C8, as claimed: an invocation that is about to read its temporary file
\* finds the file it wrote, and the audio an invocation has loaded is the
\* audio it wrote.
InvocationsIndependent ==
    \A i \in Invocations :
        /\ inv[i].pc = "extract" => fs[inv[i].temp_wav].writer = i
        /\ inv[i].y # NoAudio => inv[i].y.writer = i

\* C10: ffmpeg is tried first; librosa is tried exactly when ffmpeg failed;
\* neither is tried twice; convert_to_wav raises exactly when both failed
\* and returns otherwise.
DecoderFallbackProtocol ==
    \A i \in Invocations :
        /\ inv[i].attempts \in {<<>>, <<"ffmpeg">>, <<"ffmpeg", "librosa">>}
        /\ inv[i].convert # "none" =>
              /\ inv[i].librosa # "none" <=> inv[i].ffmpeg = "failed"
              /\ inv[i].convert = "raised" <=>
                    (inv[i].ffmpeg = "failed" /\ inv[i].librosa = "failed")
              /\ inv[i].convert = "returned" <=>
                    (inv[i].ffmpeg = "ok" \/ inv[i].librosa = "ok")
        /\ inv[i].convert = "raised" => inv[i].pc = "raised" /\ inv[i].stages = {"convert"}
        /\ (inv[i].convert = "none" /\ inv[i].ffmpeg = "failed") => inv[i].pc = "librosa"

\* the fallback decoded a file ffmpeg had failed on
FallbackSucceeded ==
    \E i \in Invocations :
        /\ inv[i].attempts = <<"ffmpeg", "librosa">>
        /\ inv[i].convert = "returned"
        /\ inv[i].pc = "returned"

\* both decode strategies of invocation i have failed
DecodeFailed(i) == inv[i].ffmpeg = "failed" /\ inv[i].librosa = "failed"

\* C11: when both decode strategies failed, process_diarization has raised:
\* it returns no result, has loaded no audio, and has run none of feature
\* extraction, VAD and clustering.
DecodeFailurePropagates ==
    \A i \in Invocations :
        DecodeFailed(i) =>
            /\ inv[i].pc = "raised"
            /\ inv[i].result = <<>>
            /\ inv[i].y = NoAudio
            /\ inv[i].stages \cap {"extract", "vad", "cluster"} = {}
            /\ inv[i].cs = NoClustering

\* both strategies failed for one invocation while the other one returned
DecodeFailedBesideReturn ==
    \E i, j \in Invocations :
        /\ DecodeFailed(i)
        /\ inv[j].pc = "returned"

\* ------------------------------------------------------------------------
\* Properties of the first assembly pass
\* ------------------------------------------------------------------------
\* frame p (p >= 2) of the retained frames differs from the frame before it
\* in its label, or lies more than 1.0 s after it
LabelChanges(p) == cs_out.cluster_labels[p] # cs_out.cluster_labels[p - 1]

GapExceeds(p) == cs_out.speech_frames[p] - cs_out.speech_frames[p - 1] > SR

\* the positions that open a maximal run of retained frames with one label
\* and gaps of at most 1.0 s
RunStarts ==
    {1} \cup {p \in 2..Len(cs_out.speech_frames) : LabelChanges(p) \/ GapExceeds(p)}

\* the last position of the run that position s opens
RunEnd(s) ==
    LET later == {q \in RunStarts : q > s}
    IN  IF later = {} THEN Len(cs_out.speech_frames)
        ELSE (CHOOSE q \in later : \A r \in later : q <= r) - 1

\* C19: the first-pass segments are exactly the maximal runs of retained
\* frames with one label and gaps of at most 1.0 s, in order: one segment per
\* run, with the run's label, starting at the timestamp of its first frame
\* and ending at the timestamp of its last frame; the last segment ends at
\* the last retained frame.
FirstPassIsMaximalRuns ==
    Assembled =>
        LET segs == cs_out.speaker_segments
        IN  /\ Len(segs) = Cardinality(RunStarts)
            /\ \A s \in RunStarts :
                  \E j \in 1..Len(segs) :
                      segs[j] = [speaker |-> cs_out.cluster_labels[s],
                                 start |-> cs_out.speech_frames[s],
                                 end |-> cs_out.speech_frames[RunEnd(s)]]
            /\ \A j \in 1..(Len(segs) - 1) : segs[j].start < segs[j + 1].start
            /\ segs[Len(segs)].end = Last(cs_out.speech_frames)

\* one run was closed by a gap without a change of label, and another by a
\* change of label without a gap
SplitByGapAndByLabel ==
    /\ Assembled
    /\ \E p \in 2..Len(cs_out.speech_frames) : GapExceeds(p) /\ ~LabelChanges(p)
    /\ \E q \in 2..Len(cs_out.speech_frames) : LabelChanges(q) /\ ~GapExceeds(q)

\* C25: the merge pass changes nothing in what the first pass built: the
\* returned list is the first-pass list, since consecutive first-pass
\* segments of one speaker lie more than 1.0 s apart.
MergeKeepsFirstPass ==
    Assembled =>
        /\ cs_out.merged_segments = cs_out.speaker_segments
        /\ \A j \in 1..(Len(cs_out.speaker_segments) - 1) :
              ~CanMerge(cs_out.speaker_segments[j], cs_out.speaker_segments[j + 1])

\* two consecutive first-pass segments have the same speaker
SameSpeakerTwiceInARow ==
    /\ Assembled
    /\ \E j \in 1..(Len(cs_out.speaker_segments) - 1) :
          cs_out.speaker_segments[j].speaker = cs_out.speaker_segments[j + 1].speaker
    /\ \E p \in 2..Len(cs_out.speech_frames) : ~GapExceeds(p) /\ ~LabelChanges(p)

\* the returned segments that cover the retained frame at position p
Covering(p) ==
    {j \in 1..Len(cs_out.merged_segments) :
        /\ cs_out.merged_segments[j].start <= cs_out.speech_frames[p]
        /\ cs_out.speech_frames[p] <= cs_out.merged_segments[j].end}

\* C26: every retained frame lies in exactly one returned segment, and that
\* segment has the frame's label as its speaker; so the speakers of the
\* returned segments are the labels of the final clustering, and their
\* number is the number of distinct labels.
EveryFrameInOneSegment ==
    Assembled =>
        /\ \A p \in 1..Len(cs_out.speech_frames) :
              /\ Cardinality(Covering(p)) = 1
              /\ \A j \in Covering(p) :
                    cs_out.merged_segments[j].speaker = cs_out.cluster_labels[p]
        /\ {cs_out.merged_segments[j].speaker : j \in 1..Len(cs_out.merged_segments)}
               = Range(cs_out.cluster_labels)
        /\ NumUnique(cs_out.cluster_labels) = cs_out.best_n_clusters

\* frames of two labels in three segments, one of them of several frames
FramesShareASegment ==
    /\ Assembled
    /\ Len(cs_out.merged_segments) = 3
    /\ NumUnique(cs_out.cluster_labels) = 2
    /\ Len(cs_out.speech_frames) > 3

\* ------------------------------------------------------------------------
\* Properties of the search for the number of clusters
\* ------------------------------------------------------------------------
\* the call was given a valid range and retained at least one frame
ValidSearch ==
    /\ cs_pc = "done"
    /\ cs_out.speech_frames # <<>>
    /\ 1 <= cs_in.min_speakers
    /\ cs_in.min_speakers <= cs_in.max_speakers

\* C12, as claimed: with a valid range and at least one retained frame, a
\* search that scored no candidate is followed by a clustering into
\* min_speakers clusters and a returned segment list; the call does not raise.
FallbackNeverRaises ==
    (ValidSearch /\ ScoredCounts = {}) =>
        /\ ~cs_out.raised
        /\ cs_out.clustered
        /\ cs_out.best_n_clusters = cs_in.min_speakers
        /\ Len(cs_out.merged_segments) >= 1

\* the scores of the trials, in trial order
ScoreOf(k) ==
    LET j == CHOOSE j \in 1..Len(cs_out.silhouette_scores) :
                 cs_out.silhouette_scores[j][1] = k
    IN  cs_out.silhouette_scores[j][2]

\* C13: when some candidate was scored, the selected count has the largest
\* score of all scored candidates and is the smallest count with that score;
\* best_score is that score.
FirstBestScoreWins ==
    (cs_pc = "done" /\ ScoredCounts # {}) =>
        /\ cs_out.best_n_clusters \in ScoredCounts
        /\ cs_out.best_score = ScoreOf(cs_out.best_n_clusters)
        /\ \A k \in ScoredCounts :
              /\ ScoreOf(k) <= cs_out.best_score
              /\ ScoreOf(k) = cs_out.best_score => cs_out.best_n_clusters <= k

\* two candidates share the largest score and the smaller one is selected
TieKeptFirst ==
    /\ cs_pc = "done"
    /\ cs_out.clustered
    /\ \E k \in ScoredCounts :
          /\ k > cs_out.best_n_clusters
          /\ ScoreOf(k) = cs_out.best_score
          /\ cs_out.best_n_clusters \in ScoredCounts

\* the number of retained speech frames of the call
NumRetained == Len(cs_out.speech_frames)

\* C17, as claimed: every clustering the call fitted or tried to fit, the
\* final one included, used a cluster count strictly smaller than the
\* number of retained speech frames.
AllFitsBelowSampleCount ==
    cs_pc = "done" =>
        \A j \in 1..Len(cs_out.fits) : cs_out.fits[j] < NumRetained

\* the cluster counts the search loop fitted, in order: every fit of the call
\* but its last one, which is the final clustering
Trials == SubSeq(cs_out.fits, 1, Len(cs_out.fits) - 1)

\* the counts from lo to hi, ascending; none when lo > hi
Ascending(lo, hi) == [j \in 1..Max2(0, hi - lo + 1) |-> lo + j - 1]

\* C18: the search loop tries exactly the counts from max(min_speakers, 2)
\* to min(max_speakers, retained frames - 1), each once, in ascending order;
\* 1 is never tried, and nothing is tried when min_speakers > max_speakers
\* or at most two frames are retained.
TrialsAreTheCappedRange ==
    (cs_pc = "done" /\ NumRetained > 0) =>
        /\ Trials = Ascending(Max2(cs_in.min_speakers, 2),
                              Min2(cs_in.max_speakers, NumRetained - 1))
        /\ \A j \in 1..Len(Trials) : Trials[j] # 1
        /\ (cs_in.min_speakers > cs_in.max_speakers \/ NumRetained <= 2)
               => Trials = <<>>

\* the search skipped the counts below 2 and stopped below the number of
\* retained frames although max_speakers allowed more
TrialsSkippedAndCapped ==
    /\ cs_pc = "done"
    /\ Len(Trials) >= 1
    /\ cs_in.max_speakers >= NumRetained
    /\ cs_in.min_speakers < 2

\* the feature rows the call retained
RetainedFeatures ==
    Masked(cs_in.features, SpeechIdx(cs_in.frames, cs_in.vad_segments, 1))

\* C23: the labels the segments are assembled from are those of a clustering
\* fitted with the selected count after the search loop (the last fit of the
\* call), whatever count the loop tried last, and the first-pass segments
\* are built from these labels.
FinalLabelsFromSelectedCount ==
    Assembled =>
        /\ Last(cs_out.fits) = cs_out.best_n_clusters
        /\ Len(cs_out.fits) = Len(Trials) + 1
        /\ cs_out.cluster_labels =
               fit_predict(RetainedFeatures, cs_out.best_n_clusters, cs_in.linkage)
        /\ NumUnique(cs_out.cluster_labels) = cs_out.best_n_clusters
        /\ cs_out.speaker_segments =
               FirstPass(cs_out.cluster_labels, cs_out.speech_frames, 2,
                         cs_out.cluster_labels[1], cs_out.speech_frames[1])

\* the selected count is not the count the loop tried last
SelectedIsNotLastTrial ==
    /\ Assembled
    /\ Len(Trials) >= 2
    /\ cs_out.best_n_clusters # Last(Trials)
    /\ cs_out.best_n_clusters \in Range(Trials)

\* ------------------------------------------------------------------------
\* Properties of a whole run
\* ------------------------------------------------------------------------
\* invocations i and j have loaded the same signal and were given the same
\* min_speakers and max_speakers
SameInputs(i, j) ==
    /\ inv[i].y # NoAudio
    /\ inv[i].y.signal = inv[j].y.signal
    /\ inv[i].min_speakers = inv[j].min_speakers
    /\ inv[i].max_speakers = inv[j].max_speakers

NumSpeakersCountsDistinct ==
    \A i \in Invocations :
        inv[i].pc = "returned" =>
            LET r == inv[i].result[1]
            IN  /\ r.num_speakers =
                       Cardinality({r.segments[j].speaker : j \in 1..Len(r.segments)})
                /\ r.segments = <<>> => r.num_speakers = 0
                /\ \A j \in 1..Len(r.segments) : r.segments[j].speaker \in Nat

\* a result with more segments than speakers: a speaker speaks twice
SpeakerReturns ==
    \E i \in Invocations :
        /\ inv[i].pc = "returned"
        /\ inv[i].result[1].num_speakers = 2
        /\ Len(inv[i].result[1].segments) = 3

\* ------------------------------------------------------------------------
\* Properties of extract_features
\* ------------------------------------------------------------------------
\* C16, as claimed: what extract_features returned has one timestamp per
\* feature row, and the timestamps increase by exactly one hop (hop_length
\* samples at the rate SR) from each to the next.
OneTimestampPerRow ==
    \A i \in Invocations :
        inv[i].y # NoAudio =>
            /\ Len(inv[i].frames) = Len(inv[i].features)
            /\ \A p \in 1..(Len(inv[i].frames) - 1) :
                  inv[i].frames[p + 1] - inv[i].frames[p] = hop_length

\* ------------------------------------------------------------------------
\* Properties of the VAD's run detection
\* ------------------------------------------------------------------------
\* frame index f (0-based) of the pattern is active; an index out of range
\* is not
ActiveAt(f) == f >= 0 /\ f < Len(vad_in) /\ vad_in[f + 1]

\* the maximal runs of consecutive active frame indices, as <<first, last>>
MaximalRuns ==
    {r \in (0..(Len(vad_in) - 1)) \X (0..(Len(vad_in) - 1)) :
        /\ r[1] <= r[2]
        /\ \A f \in r[1]..r[2] : ActiveAt(f)
        /\ ~ActiveAt(r[1] - 1)
        /\ ~ActiveAt(r[2] + 1)}

\* the time bounds of the maximal runs that span at least 0.5 s
LongRunTimes ==
    {<<frames_to_time(r[1]), frames_to_time(r[2])>> : r \in
        {q \in MaximalRuns : 2 * (frames_to_time(q[2]) - frames_to_time(q[1])) >= SR}}

\* C21: the intervals detect_voice_activity returns are the time bounds of
\* the maximal runs of consecutive active frames that span at least 0.5 s,
\* each of them once, the last run of the signal included, and nothing else.
VadIsMaximalRuns ==
    vad_pc = "done" =>
        /\ Range(vad_out) = LongRunTimes
        /\ Len(vad_out) = Cardinality(LongRunTimes)

\* the signal ends in a run that is returned, after a run that was too
\* short to be
LastRunReturned ==
    /\ vad_pc = "done"
    /\ Len(vad_out) >= 1
    /\ Last(vad_out)[2] = frames_to_time(Len(vad_in) - 1)
    /\ Cardinality(MaximalRuns) > Len(vad_out)

\* ------------------------------------------------------------------------
\* Properties of the restriction to the speech frames
\* ------------------------------------------------------------------------
\* C22, as claimed: once cluster_speakers has run in an invocation, the
\* frames it retained are exactly the timestamps that lie within some voice
\* interval, in their order, and when there is none it has returned an empty
\* segment list and has not raised.
RetainedAreTheSpeechFrames ==
    \A i \in Invocations :
        "cluster" \in inv[i].stages =>
            LET idx == SpeechIdx(inv[i].frames, inv[i].vad_segments, 1)
            IN  /\ inv[i].cs.speech_frames = Masked(inv[i].frames, idx)
                /\ idx = <<>> =>
                      ~inv[i].cs.raised /\ inv[i].cs.merged_segments = <<>>

\* the same for cluster_speakers given one timestamp per feature row
RetainedAreTheSpeechFramesAligned ==
    cs_pc = "done" =>
        LET idx == SpeechIdx(cs_in.frames, cs_in.vad_segments, 1)
        IN  /\ cs_out.speech_frames = Masked(cs_in.frames, idx)
            /\ idx = <<>> => ~cs_out.raised /\ cs_out.merged_segments = <<>>

\* ------------------------------------------------------------------------
\* Properties of the handler of POST /diarize
\* ------------------------------------------------------------------------
\* C24, as claimed: a request whose process_diarization call returned is
\* answered with 200 and a body that holds segments, speakers and
\* processing_time, not with 500.
SuccessIsAnswered ==
    (req.pc = "done" /\ req.core = "returned") =>
        /\ req.status = 200
        /\ {"segments", "speakers", "processing_time"} \subseteq req.body

\* the request passed the three checks of lines 80-91
PassedValidation == req.upload \in {"wav", "mp3"}

\* C28, as claimed: when a request that passed validation has been answered,
\* no file the handler stored in the upload folder is left.
StoredFilesRemoved ==
    (req.pc = "done" /\ PassedValidation) => req.stored = {}

\* C29: for integer form values, the counts after the clamping, and the
\* counts process_diarization is called with, satisfy
\* 1 <= min_speakers <= max_speakers <= 20.
ClampedRangeValid ==
    /\ req.pc \in {"save", "convert", "duration", "diarize"} =>
          /\ 1 <= req.min_speakers
          /\ req.min_speakers <= req.max_speakers
          /\ req.max_speakers <= SpeakersLimit
    /\ req.called_with # <<>> =>
          /\ req.called_with = <<req.min_speakers, req.max_speakers>>
          /\ 1 <= req.called_with[1]
          /\ req.called_with[1] <= req.called_with[2]
          /\ req.called_with[2] <= SpeakersLimit

\* process_diarization was called for a form whose max_speakers lies below
\* its min_speakers, which lies above the limit
CalledAfterClamping ==
    /\ req.called_with # <<>>
    /\ req.form_min = <<21>>
    /\ req.form_max = <<0>>

\* ------------------------------------------------------------------------
\* Properties of process_diarization called alone
\* ------------------------------------------------------------------------
\* C27, as claimed: when the call has returned, the input file exists with
\* the content the caller stored.
InputFileUntouched ==
    inv[LoneInvocation].pc = "returned" =>
        /\ fs[inv[LoneInvocation].audio_path] # Absent
        /\ fs[inv[LoneInvocation].audio_path].writer = 0

\* the same for input files that are not named temp_diarize.wav
OtherInputFilesUntouched ==
    (/\ inv[LoneInvocation].pc \in {"returned", "raised"}
     /\ inv[LoneInvocation].audio_path # inv[LoneInvocation].temp_wav) =>
        /\ fs[inv[LoneInvocation].audio_path] # Absent
        /\ fs[inv[LoneInvocation].audio_path].writer = 0

\* ------------------------------------------------------------------------
\* Properties of generate_simplified_segments
\* ------------------------------------------------------------------------
\* the call has returned segments that are sorted by start, do not overlap,
\* and each have start < end <= duration
GenSegmentsOrdered ==
    gs.pc = "returned" =>
        /\ \A j \in 1..Len(gs.segments) :
              /\ gs.segments[j].start < gs.segments[j].end
              /\ gs.segments[j].end <= gs.duration
              /\ gs.segments[j].start >= 0
        /\ \A j \in 1..(Len(gs.segments) - 1) :
              /\ gs.segments[j].start <= gs.segments[j + 1].start
              /\ gs.segments[j + 1].start >= gs.segments[j].end

\* an iteration ends the loop or moves current_time on by at least 0.1 s
GenStepAdvances ==
    gs.pc = "loop" =>
        \/ gs'.pc # "loop"
        \/ gs'.current_time >= gs.current_time + 10

====
